---- MODULE Spec2Model ----
(***************************************************************************)
(* Model of template/word2questions.js.py: the Word -> questions_data.js    *)
(* converter.  A Python str is a sequence of characters; a character is a   *)
(* one-element TLA+ string.  Characters outside ASCII are written by name:  *)
(*   "DUN" 、   "FLP" （   "FRP" ）   "FCOLON" ：   "FCOMMA" ，   "FSEMI" ；     *)
(*   "FSP" U+3000 (full-width space)   "CHECK" √   "CROSS" ×                *)
(*   "dan" 单  "xuan" 选  "duo" 多  "pan" 判  "duan" 断  "da" 答  "an" 案       *)
(*   "zheng" 正  "que" 确  "cuo" 错  "wu" 误  "dui" 对  "shi" 是  "fou" 否      *)
(* None and the empty str are both the empty sequence: the code only ever   *)
(* tests them for truth (typedesc or typ2 or ..., if typ2:).                *)
(***************************************************************************)
EXTENDS Integers, Sequences, FiniteSets, TLC

VARIABLES
    paragraphs,           \* doc.paragraphs: the text of each paragraph
    lines,                \* parse_docx: lines
    idx,                  \* position of the for loop in lines + [""]
    cur,                  \* parse_docx: cur (the open record, {} when none)
    questions,            \* parse_docx: questions
    auto_num,             \* parse_docx: auto_num
    start_number,         \* parameter start_number / args.start_number
    respect_word_number,  \* parameter respect_word_number / args.respect_number
    pc,                   \* where the run is
    err,                  \* the exception parse_docx raised, "none" if none
    cur_from,             \* history: index in lines of cur's question-start line
    spans,                \* history: for each emitted record, its lines [from, to]
    js_file,              \* the file at js_path: whether it exists, and its text
    new_list,             \* merge_existing: new_list
    renumber_after_merge, \* parameter renumber_after_merge / args.renumber_after_merge
    merged,               \* what merge_existing returned
    in_exists,            \* main: in_path.exists()
    append_to,            \* main: args.append_to given
    out_file,             \* the file at out_path: whether it exists, and its text
    calls,                \* history: the calls main made, in order
    exit_status,          \* the process's exit status, -1 while running
    arg_ans_text,         \* normalize_answers: argument ans_text
    arg_q_type,           \* normalize_answers: argument q_type
    norm,                 \* what normalize_answers returned or raised
    joined                \* history: the list of labels ans_text was joined from

vars == <<paragraphs, lines, idx, cur, questions, auto_num, start_number,
          respect_word_number, pc, err, cur_from, spans, js_file, new_list,
          renumber_after_merge, merged, in_exists, append_to, out_file, calls,
          exit_status, arg_ans_text, arg_q_type, norm, joined>>

parseVars == <<paragraphs, lines, idx, cur, questions, auto_num, start_number,
               respect_word_number, err, cur_from, spans>>
mergeVars == <<js_file, new_list, renumber_after_merge, merged>>
mainVars  == <<in_exists, append_to, out_file, calls, exit_status>>
normVars  == <<arg_ans_text, arg_q_type, norm, joined>>

----------------------------------------------------------------------------
(* Characters and str methods                                               *)

None == <<>>

\* what \s matches among the characters of the model
WS == {" ", "FSP", "TAB", "NL"}
IsSpace(c) == c \in WS

Digits == <<"0", "1", "2", "3", "4", "5", "6", "7", "8", "9">>
IsDigit(c) == \E k \in 1..10 : Digits[k] = c
DigitVal(c) == (CHOOSE k \in 1..10 : Digits[k] = c) - 1

LowerLetters == <<"a", "b", "c", "d", "e", "f", "g", "h", "i", "j", "k", "l", "m",
                  "n", "o", "p", "q", "r", "s", "t", "u", "v", "w", "x", "y", "z">>
UpperLetters == <<"A", "B", "C", "D", "E", "F", "G", "H", "I", "J", "K", "L", "M",
                  "N", "O", "P", "Q", "R", "S", "T", "U", "V", "W", "X", "Y", "Z">>
IsLower(c) == \E k \in 1..26 : LowerLetters[k] = c
IsUpper(c) == \E k \in 1..26 : UpperLetters[k] = c

\* str.upper() on one character
UpperChar(c) == IF IsLower(c) THEN UpperLetters[CHOOSE k \in 1..26 : LowerLetters[k] = c]
                ELSE c
upper(s) == [k \in 1..Len(s) |-> UpperChar(s[k])]

\* the first index >= i of s that holds no whitespace (Len(s)+1 if none): \s*
RECURSIVE SkipWs(_, _)
SkipWs(s, i) == IF i <= Len(s) /\ IsSpace(s[i]) THEN SkipWs(s, i + 1) ELSE i

\* the last index <= i of s that holds no whitespace (0 if none)
RECURSIVE LastNonWs(_, _)
LastNonWs(s, i) == IF i >= 1 /\ IsSpace(s[i]) THEN LastNonWs(s, i - 1) ELSE i

\* str.strip()
strip(s) == LET a == SkipWs(s, 1)
                b == LastNonWs(s, Len(s))
            IN  IF a > b THEN <<>> ELSE SubSeq(s, a, b)

\* re.sub(r"\s+", " ", s)
RECURSIVE CollapseWs(_, _)
CollapseWs(s, i) ==
    IF i > Len(s) THEN <<>>
    ELSE IF IsSpace(s[i]) THEN <<" ">> \o CollapseWs(s, SkipWs(s, i))
    ELSE <<s[i]>> \o CollapseWs(s, i + 1)

clean(s) == strip(CollapseWs(s, 1))

\* str.replace("　", " ")
ReplaceFsp(s) == [k \in 1..Len(s) |-> IF s[k] = "FSP" THEN " " ELSE s[k]]

----------------------------------------------------------------------------
(* The regular expressions                                                  *)

DANXUAN == <<"dan", "xuan">>
DUOXUAN == <<"duo", "xuan">>
PANDUAN == <<"pan", "duan">>

NumSep == {".", "DUN", ")"}       \* [\.\、\)]
OpenParen == {"FLP", "("}         \* [（(]
CloseParen == {")", "FRP"}        \* [)）]

\* (单选|多选|判断) at index i of s, None if it is not there
TypeWordAt(s, i) ==
    IF i + 1 > Len(s) THEN None
    ELSE IF SubSeq(s, i, i + 1) \in {DANXUAN, DUOXUAN, PANDUAN} THEN SubSeq(s, i, i + 1)
    ELSE None

RECURSIVE SkipDigits(_, _)
SkipDigits(s, i) == IF i <= Len(s) /\ IsDigit(s[i]) THEN SkipDigits(s, i + 1) ELSE i

\* int() of a run of digits
RECURSIVE ToInt(_)
ToInt(ds) == IF ds = <<>> THEN 0
             ELSE 10 * ToInt(SubSeq(ds, 1, Len(ds) - 1)) + DigitVal(ds[Len(ds)])

NoMatch == [matched |-> FALSE]

\* RE_Q_START.match(line): num, typedesc (None if the group took no part), qtext
RE_Q_START(line) ==
    LET i0 == SkipWs(line, 1)
        i1 == SkipDigits(line, i0)
        i2 == SkipWs(line, i1)
        i3 == SkipWs(line, i2 + 1)
        j0 == IF i3 <= Len(line) /\ line[i3] \in OpenParen THEN i3 + 1 ELSE i3
        j1 == SkipWs(line, j0)
        tw == TypeWordAt(line, j1)
        j2 == SkipWs(line, j1 + 2)
        grp == tw # None /\ j2 <= Len(line) /\ line[j2] \in CloseParen
        qs == IF grp THEN SkipWs(line, j2 + 1) ELSE i3
    IN  IF i1 > i0 /\ i2 <= Len(line) /\ line[i2] \in NumSep
        THEN [matched |-> TRUE,
              num |-> ToInt(SubSeq(line, i0, i1 - 1)),
              typedesc |-> IF grp THEN tw ELSE None,
              qtext |-> SubSeq(line, qs, Len(line))]
        ELSE NoMatch

\* text[k..] is [（(]\s*(单选|多选|判断)\s*[)）]\s*$
HintAt(text, k) ==
    LET j1 == SkipWs(text, k + 1)
        j2 == SkipWs(text, j1 + 2)
    IN  /\ text[k] \in OpenParen
        /\ TypeWordAt(text, j1) # None
        /\ j2 <= Len(text)
        /\ text[j2] \in CloseParen
        /\ SkipWs(text, j2 + 1) > Len(text)

\* RE_Q_TYPE_AT_END.match(text): body is lazy, so the leftmost start wins
RE_Q_TYPE_AT_END(text) ==
    LET ks == {k \in 1..Len(text) : HintAt(text, k)}
        k0 == CHOOSE k \in ks : \A k2 \in ks : k <= k2
    IN  IF ks = {} THEN NoMatch
        ELSE [matched |-> TRUE,
              body |-> SubSeq(text, 1, k0 - 1),
              typ |-> TypeWordAt(text, SkipWs(text, k0 + 1))]

\* RE_OPT.match(line): the label and the text up to the last non-blank
RE_OPT(line) ==
    LET i0 == SkipWs(line, 1)
        i1 == SkipWs(line, i0 + 1)
        i2 == SkipWs(line, i1 + 1)
    IN  IF /\ i0 <= Len(line)
           /\ (IsUpper(line[i0]) \/ IsLower(line[i0]))
           /\ i1 <= Len(line)
           /\ line[i1] \in NumSep
           /\ i2 <= Len(line)
        THEN [matched |-> TRUE,
              label |-> <<line[i0]>>,
              text |-> SubSeq(line, i2, LastNonWs(line, Len(line)))]
        ELSE NoMatch

Colons == {":", "FCOLON"}         \* [:：]

\* RE_ANS.match(line): the answer text; when only whitespace follows the
\* colon, \s* gives one character back to (.+?)
RE_ANS(line) ==
    LET i0 == SkipWs(line, 1)
        i1 == IF i0 + 1 <= Len(line) /\ SubSeq(line, i0, i0 + 1) = <<"da", "an">>
              THEN i0 + 2
              ELSE IF i0 + 3 <= Len(line)
                      /\ SubSeq(line, i0, i0 + 3) = <<"zheng", "que", "da", "an">>
              THEN i0 + 4
              ELSE 0
        i2 == SkipWs(line, i1)
        i3 == SkipWs(line, i2 + 1)
    IN  IF i1 > 0 /\ i2 <= Len(line) /\ line[i2] \in Colons /\ i2 < Len(line)
        THEN [matched |-> TRUE,
              text |-> IF i3 <= Len(line)
                       THEN SubSeq(line, i3, LastNonWs(line, Len(line)))
                       ELSE <<line[Len(line)]>>]
        ELSE NoMatch

----------------------------------------------------------------------------
(* normalize_answers                                                        *)

TRUE_SET == {<<"dui">>, <<"zheng", "que">>, <<"CHECK">>, <<"T">>,
             <<"T", "R", "U", "E">>, <<"Y", "E", "S">>, <<"Y">>, <<"shi">>}
FALSE_SET == {<<"cuo">>, <<"cuo", "wu">>, <<"CROSS">>, <<"F">>,
              <<"F", "A", "L", "S", "E">>, <<"N", "O">>, <<"N">>, <<"fou">>}

\* fault: the plus sign left out of the separators
AnsSepNoPlus == {"DUN", "FCOMMA", ",", ";", "FSEMI", " ", "FSP", "TAB", "NL"}

\* [、，,;；\s\+]
AnsSep == {"DUN", "FCOMMA", ",", ";", "FSEMI", "+"} \cup WS

RECURSIVE SkipSep(_, _)
SkipSep(s, i) == IF i <= Len(s) /\ s[i] \in AnsSep THEN SkipSep(s, i + 1) ELSE i

RECURSIVE SkipTok(_, _)
SkipTok(s, i) == IF i <= Len(s) /\ s[i] \notin AnsSep THEN SkipTok(s, i + 1) ELSE i

\* re.split(r"[、，,;；\s\+]+", s) with the empty parts removed, from index i
RECURSIVE SplitParts(_, _)
SplitParts(s, i) ==
    LET a == SkipSep(s, i)
        b == SkipTok(s, a)
    IN  IF a > Len(s) THEN <<>>
        ELSE <<SubSeq(s, a, b - 1)>> \o SplitParts(s, b)

\* fault: the first character of each part taken, a letter or not
LeadingLettersAny(parts) == [k \in 1..Len(parts) |-> <<parts[k][1]>>]

\* the leading [A-Z] of each part that has one, each a str of one letter
RECURSIVE LeadingLetters(_)
LeadingLetters(parts) ==
    IF parts = <<>> THEN <<>>
    ELSE (IF IsUpper(Head(parts)[1]) THEN <<<<Head(parts)[1]>>>> ELSE <<>>)
         \o LeadingLetters(Tail(parts))

\* duplicates removed, first occurrences kept in order
RECURSIVE Uniq(_, _)
Uniq(s, seen) ==
    IF s = <<>> THEN <<>>
    ELSE IF Head(s) \in seen THEN Uniq(Tail(s), seen)
    ELSE <<Head(s)>> \o Uniq(Tail(s), seen \cup {Head(s)})

\* the 判断 branch on its first token
JudgeToken(token) ==
    IF token \in TRUE_SET \/ upper(token) \in TRUE_SET THEN <<<<"A">>>>
    ELSE IF token \in FALSE_SET \/ upper(token) \in FALSE_SET THEN <<<<"B">>>>
    ELSE IF token \in {<<"A">>, <<"B">>} THEN <<token>>
    ELSE <<>>

\* normalize_answers(ans_text, q_type): the list returned, or the exception
\* raised (parts[0] of an empty list)
normalize_answers(ans_text, q_type) ==
    LET parts == SplitParts(upper(strip(ans_text)), 1)
    IN  IF q_type = PANDUAN
        THEN IF parts = <<>> THEN [raised |-> "IndexError", value |-> <<>>]
             ELSE [raised |-> "none", value |-> JudgeToken(parts[1])]
        ELSE [raised |-> "none", value |-> Uniq(LeadingLetters(parts), {})]

----------------------------------------------------------------------------
(* flush_current                                                            *)

EmptyDict == <<>>
IsEmptyDict(buf) == DOMAIN buf = {}

ZHENGQUE == <<"zheng", "que">>
CUOWU == <<"cuo", "wu">>
JudgeOptions == <<[label |-> <<"A">>, text |-> ZHENGQUE],
                  [label |-> <<"B">>, text |-> CUOWU]>>

\* fault: flush_current without the 判断 default options
FillJudgeOptionsNever(buf) == buf

\* lines 112-116: 判断 without options gets 正确/错误
FillJudgeOptions(buf) ==
    IF buf.type = PANDUAN /\ buf.options = <<>>
    THEN [buf EXCEPT !.options = JudgeOptions]
    ELSE buf

\* fault: the options cleaned but a repeated label not dropped
CleanOptionsKeepAll(opts, seen) ==
    [k \in 1..Len(opts) |-> [label |-> upper(opts[k].label), text |-> clean(opts[k].text)]]

\* lines 118-126: the options cleaned, the first of each label kept
RECURSIVE CleanOptions(_, _)
CleanOptions(opts, seen) ==
    IF opts = <<>> THEN <<>>
    ELSE LET label == upper(Head(opts).label)
             text == clean(Head(opts).text)
         IN  IF label = <<>> \/ text = <<>> \/ label \in seen
             THEN CleanOptions(Tail(opts), seen)
             ELSE <<[label |-> label, text |-> text]>>
                  \o CleanOptions(Tail(opts), seen \cup {label})

\* fault: flush_current without its final check
KeepRecordAlways(buf) == TRUE

\* lines 136-137: only a record with a question is appended
KeepRecord(buf) == clean(buf.question) # <<>>

\* buf as flush_current leaves it (lines 112-133); the answer is always a list
\* here, so lines 130-133 leave it as it is
Flushed(buf) == [FillJudgeOptions(buf) EXCEPT
                    !.options = CleanOptions(FillJudgeOptions(buf).options, {})]

\* fault: the record put in front of the list
flush_currentInFront(q_list, buf) ==
    IF IsEmptyDict(buf) THEN q_list
    ELSE IF KeepRecord(Flushed(buf)) THEN <<Flushed(buf)>> \o q_list
    ELSE q_list

\* flush_current(q_list, buf): q_list afterwards
flush_current(q_list, buf) ==
    IF IsEmptyDict(buf) THEN q_list
    ELSE IF KeepRecord(Flushed(buf)) THEN Append(q_list, Flushed(buf))
    ELSE q_list

----------------------------------------------------------------------------
(* parse_docx                                                               *)

\* extract_type_from_text(text): (type or None, the text without the hint)
extract_type_from_text(text) ==
    LET m == RE_Q_TYPE_AT_END(text)
    IN  IF m.matched THEN [typ |-> m.typ, body |-> clean(m.body)]
        ELSE [typ |-> None, body |-> clean(text)]

\* lines 142-147: one line per paragraph, full-width spaces replaced, stripped
ReadLines(paras) == [k \in 1..Len(paras) |-> strip(ReplaceFsp(paras[k]))]

\* the line the for loop of line 156 is at: lines + [""], stripped
LoopLine == strip(IF idx <= Len(lines) THEN lines[idx] ELSE <<>>)

\* fault: the hint at the end of the question-start line decides first
QuestionTypeTrailingFirst(m) ==
    LET typ2 == extract_type_from_text(strip(m.qtext)).typ
    IN  IF typ2 # None THEN typ2
        ELSE IF m.typedesc # None THEN m.typedesc
        ELSE DANXUAN

\* fault: the hint at the end of the question-start line not looked at
QuestionTypeAdjacent(m) == IF m.typedesc # None THEN m.typedesc ELSE DANXUAN

\* lines 171-172: the hint next to the number, else the one at the end, else 单选
QuestionType(m) ==
    LET typ2 == extract_type_from_text(strip(m.qtext)).typ
    IN  IF m.typedesc # None THEN m.typedesc
        ELSE IF typ2 # None THEN typ2
        ELSE DANXUAN

\* line 175: the question text of a question-start line
QuestionText(m) ==
    LET e == extract_type_from_text(strip(m.qtext))
    IN  clean(IF e.typ # None THEN e.body ELSE strip(m.qtext))

\* fault: the declared number taken in either mode
QuestionNumberDeclared(num_in_doc, auto) == num_in_doc

\* lines 177-183: the number the new record gets
QuestionNumber(num_in_doc, auto) ==
    IF respect_word_number THEN num_in_doc ELSE auto

\* fault: auto_num counted on in either mode
NextAutoNumCounted(num_in_doc, auto) == auto + 1

\* lines 177-183: auto_num afterwards
NextAutoNum(num_in_doc, auto) ==
    IF respect_word_number THEN num_in_doc + 1 ELSE auto + 1

\* lines 164-183: the record a question-start line opens
OpenRecord(m, auto) ==
    [options |-> <<>>,
     answer |-> <<>>,
     type |-> QuestionType(m),
     question |-> QuestionText(m),
     number |-> QuestionNumber(m.num, auto)]

\* lines 189-191: an option line appended to the open record
AddOption(buf, m2) ==
    [buf EXCEPT !.options = Append(@, [label |-> upper(m2.label), text |-> clean(m2.text)])]

\* fault: an answer line extends the answer instead of replacing it
SetAnswerMerge(buf, ans) == [buf EXCEPT !.answer = @ \o ans]

\* line 198: the answer of the open record set
SetAnswer(buf, ans) == [buf EXCEPT !.answer = ans]

\* fault: the hint of a continuation line removed but not taken as the type
ContinueQuestionKeepType(buf, line) ==
    LET e == extract_type_from_text(line)
        text == IF e.typ # None THEN e.body ELSE line
    IN  [buf EXCEPT !.question = clean(strip(buf.question \o <<" ">> \o text))]

\* lines 204-208: a plain line appended to the question, its trailing hint
\* taken as the type
ContinueQuestion(buf, line) ==
    LET e == extract_type_from_text(line)
        typ == IF e.typ # None THEN e.typ ELSE buf.type
        text == IF e.typ # None THEN e.body ELSE line
    IN  [buf EXCEPT !.type = typ,
                    !.question = clean(strip(buf.question \o <<" ">> \o text))]

\* history: the lines of a record that was appended
SpansAfter(q_after, to) ==
    IF Len(q_after) > Len(questions)
    THEN Append(spans, [from |-> cur_from, to |-> to])
    ELSE spans

\* lines 140-151; Document() raises on a file that is no .docx package
ReadDocx ==
    /\ pc = "read"
    /\ \E readable \in (IF in_exists THEN BOOLEAN ELSE {FALSE}) :
          IF readable
          THEN /\ lines' = ReadLines(paragraphs)
               /\ idx' = 1
               /\ pc' = "loop"
               /\ err' = err
          ELSE /\ pc' = "raised"
               /\ err' = "PackageNotFoundError"
               /\ UNCHANGED <<lines, idx>>
    /\ questions' = <<>>
    /\ cur' = EmptyDict
    /\ auto_num' = start_number
    /\ UNCHANGED <<paragraphs, start_number, respect_word_number, cur_from, spans>>
    /\ UNCHANGED <<mergeVars, mainVars, normVars>>

InLoop == pc = "loop" /\ idx <= Len(lines) + 1

\* lines 160-184
QStartLine ==
    /\ InLoop
    /\ LET m == RE_Q_START(LoopLine)
           q_after == flush_current(questions, cur)
       IN  /\ m.matched
           /\ questions' = q_after
           /\ spans' = SpansAfter(q_after, idx - 1)
           /\ cur' = OpenRecord(m, auto_num)
           /\ auto_num' = NextAutoNum(m.num, auto_num)
    /\ cur_from' = idx
    /\ idx' = idx + 1
    /\ UNCHANGED <<paragraphs, lines, start_number, respect_word_number, pc, err>>
    /\ UNCHANGED <<mergeVars, mainVars, normVars>>

\* lines 187-192
OptionLine ==
    /\ InLoop
    /\ ~RE_Q_START(LoopLine).matched
    /\ RE_OPT(LoopLine).matched
    /\ ~IsEmptyDict(cur)
    /\ cur' = AddOption(cur, RE_OPT(LoopLine))
    /\ idx' = idx + 1
    /\ UNCHANGED <<paragraphs, lines, questions, auto_num, start_number,
                   respect_word_number, pc, err, cur_from, spans>>
    /\ UNCHANGED <<mergeVars, mainVars, normVars>>

\* lines 195-199; an exception of normalize_answers leaves parse_docx
AnswerLine ==
    /\ InLoop
    /\ ~RE_Q_START(LoopLine).matched
    /\ ~(RE_OPT(LoopLine).matched /\ ~IsEmptyDict(cur))
    /\ RE_ANS(LoopLine).matched
    /\ ~IsEmptyDict(cur)
    /\ LET r == normalize_answers(RE_ANS(LoopLine).text, cur.type)
       IN  IF r.raised = "none"
           THEN /\ cur' = SetAnswer(cur, r.value)
                /\ idx' = idx + 1
                /\ UNCHANGED <<pc, err>>
           ELSE /\ pc' = "raised"
                /\ err' = r.raised
                /\ UNCHANGED <<cur, idx>>
    /\ UNCHANGED <<paragraphs, lines, questions, auto_num, start_number,
                   respect_word_number, cur_from, spans>>
    /\ UNCHANGED <<mergeVars, mainVars, normVars>>

\* an option or answer line is taken as such only while a record is open
TakenAsOptionOrAnswer ==
    /\ ~IsEmptyDict(cur)
    /\ RE_OPT(LoopLine).matched \/ RE_ANS(LoopLine).matched

\* lines 202-208
TextLine ==
    /\ InLoop
    /\ ~RE_Q_START(LoopLine).matched
    /\ ~TakenAsOptionOrAnswer
    /\ ~IsEmptyDict(cur)
    /\ LoopLine # <<>>
    /\ cur' = ContinueQuestion(cur, LoopLine)
    /\ idx' = idx + 1
    /\ UNCHANGED <<paragraphs, lines, questions, auto_num, start_number,
                   respect_word_number, pc, err, cur_from, spans>>
    /\ UNCHANGED <<mergeVars, mainVars, normVars>>

\* fault: a blank line ends the open record
SkipLineFlush ==
    /\ InLoop
    /\ ~RE_Q_START(LoopLine).matched
    /\ ~TakenAsOptionOrAnswer
    /\ IsEmptyDict(cur) \/ LoopLine = <<>>
    /\ LET q_after == flush_current(questions, cur)
       IN  /\ questions' = q_after
           /\ spans' = SpansAfter(q_after, idx)
    /\ cur' = EmptyDict
    /\ idx' = idx + 1
    /\ UNCHANGED <<paragraphs, lines, auto_num, start_number,
                   respect_word_number, pc, err, cur_from>>
    /\ UNCHANGED <<mergeVars, mainVars, normVars>>

\* fault: a line met while no record is open starts a question of its own
SkipLineOpens ==
    /\ InLoop
    /\ ~RE_Q_START(LoopLine).matched
    /\ ~TakenAsOptionOrAnswer
    /\ IsEmptyDict(cur) \/ LoopLine = <<>>
    /\ IF LoopLine = <<>>
       THEN UNCHANGED <<cur, cur_from>>
       ELSE /\ cur' = [options |-> <<>>, answer |-> <<>>, type |-> DANXUAN,
                       question |-> clean(LoopLine), number |-> auto_num]
            /\ cur_from' = idx
    /\ idx' = idx + 1
    /\ UNCHANGED <<paragraphs, lines, questions, auto_num, start_number,
                   respect_word_number, pc, err, spans>>
    /\ UNCHANGED <<mergeVars, mainVars, normVars>>

\* lines 202, 210-211: a blank line, or any other line while no record is open
SkipLine ==
    /\ InLoop
    /\ ~RE_Q_START(LoopLine).matched
    /\ ~TakenAsOptionOrAnswer
    /\ IsEmptyDict(cur) \/ LoopLine = <<>>
    /\ idx' = idx + 1
    /\ UNCHANGED <<paragraphs, lines, cur, questions, auto_num, start_number,
                   respect_word_number, pc, err, cur_from, spans>>
    /\ UNCHANGED <<mergeVars, mainVars, normVars>>

\* fault: the record open at the end of the input not flushed
EndOfInputNoFlush ==
    /\ pc = "loop"
    /\ idx = Len(lines) + 2
    /\ pc' = "returned"
    /\ UNCHANGED <<paragraphs, lines, idx, cur, questions, auto_num, start_number,
                   respect_word_number, err, cur_from, spans>>
    /\ UNCHANGED <<mergeVars, mainVars, normVars>>

\* lines 213-215: the last record flushed, questions returned
EndOfInput ==
    /\ pc = "loop"
    /\ idx = Len(lines) + 2
    /\ LET q_after == flush_current(questions, cur)
       IN  /\ questions' = q_after
           /\ spans' = SpansAfter(q_after, idx - 1)
    /\ cur' = IF IsEmptyDict(cur) THEN cur ELSE Flushed(cur)
    /\ pc' = "returned"
    /\ UNCHANGED <<paragraphs, lines, idx, auto_num, start_number,
                   respect_word_number, err, cur_from>>
    /\ UNCHANGED <<mergeVars, mainVars, normVars>>

\* lines 157-211 as a function: the loop's state after one more line
StepLine(st, raw) ==
    LET line == strip(raw)
        m == RE_Q_START(line)
        m2 == RE_OPT(line)
        m3 == RE_ANS(line)
    IN  IF st.err # "none" THEN st
        ELSE IF m.matched
        THEN [cur |-> OpenRecord(m, st.auto_num),
              questions |-> flush_current(st.questions, st.cur),
              auto_num |-> NextAutoNum(m.num, st.auto_num),
              err |-> "none"]
        ELSE IF m2.matched /\ ~IsEmptyDict(st.cur)
        THEN [st EXCEPT !.cur = AddOption(st.cur, m2)]
        ELSE IF m3.matched /\ ~IsEmptyDict(st.cur)
        THEN LET r == normalize_answers(m3.text, st.cur.type)
             IN  IF r.raised = "none" THEN [st EXCEPT !.cur = SetAnswer(st.cur, r.value)]
                 ELSE [st EXCEPT !.err = r.raised]
        ELSE IF ~IsEmptyDict(st.cur) /\ line # <<>>
        THEN [st EXCEPT !.cur = ContinueQuestion(st.cur, line)]
        ELSE st

\* lines 149-211: the loop's state after the lines ls
RECURSIVE LoopOver(_, _)
LoopOver(ls, start) ==
    IF ls = <<>>
    THEN [cur |-> EmptyDict, questions |-> <<>>, auto_num |-> start, err |-> "none"]
    ELSE StepLine(LoopOver(SubSeq(ls, 1, Len(ls) - 1), start), ls[Len(ls)])

\* lines 149-215 as a function of the lines read: the list returned, or the
\* exception raised
parse_lines(ls, start) ==
    LET st == StepLine(LoopOver(ls, start), <<>>)
    IN  IF st.err # "none" THEN [err |-> st.err, questions |-> <<>>]
        ELSE [err |-> "none", questions |-> flush_current(st.questions, st.cur)]

ParseNext ==
    \/ ReadDocx
    \/ QStartLine
    \/ OptionLine
    \/ AnswerLine
    \/ TextLine
    \/ SkipLine
    \/ EndOfInput

----------------------------------------------------------------------------
(* write_js and merge_existing                                              *)

MinOf(S) == CHOOSE x \in S : \A y \in S : x <= y
MaxOf(S) == CHOOSE x \in S : \A y \in S : y <= x

AbsentFile == [exists |-> FALSE, text |-> <<>>]
FileWith(text) == [exists |-> TRUE, text |-> text]

\* "window.questionsData"
WindowData == <<"w", "i", "n", "d", "o", "w", ".", "q", "u", "e", "s", "t", "i", "o", "n",
                "s", "D", "a", "t", "a">>

KeyOptions == <<"o", "p", "t", "i", "o", "n", "s">>
KeyAnswer == <<"a", "n", "s", "w", "e", "r">>
KeyType == <<"t", "y", "p", "e">>
KeyQuestion == <<"q", "u", "e", "s", "t", "i", "o", "n">>
KeyNumber == <<"n", "u", "m", "b", "e", "r">>
KeyLabel == <<"l", "a", "b", "e", "l">>
KeyText == <<"t", "e", "x", "t">>

\* str() of a number >= 0
RECURSIVE IntStr(_)
IntStr(n) == IF n < 10 THEN <<Digits[n + 1]>>
             ELSE IntStr(n \div 10) \o <<Digits[(n % 10) + 1]>>

Indent(n) == [k \in 1..n |-> " "]

\* a JSON string; no character of the model needs an escape
JsonStr(t) == <<"QUOTE">> \o t \o <<"QUOTE">>

\* items, each on its own line at indent n, separated by ","
RECURSIVE JsonItems(_, _)
JsonItems(items, n) ==
    IF Len(items) = 1 THEN Indent(n) \o items[1]
    ELSE Indent(n) \o items[1] \o <<",", "NL">> \o JsonItems(Tail(items), n)

\* json.dumps(..., indent=2) of a list or dict whose items are rendered
JsonBlock(open, close, items, n) ==
    IF items = <<>> THEN <<open, close>>
    ELSE <<open, "NL">> \o JsonItems(items, n + 2) \o <<"NL">> \o Indent(n) \o <<close>>

JsonMember(key, val) == JsonStr(key) \o <<":", " ">> \o val

DumpOption(o, n) ==
    JsonBlock("{", "}", <<JsonMember(KeyLabel, JsonStr(o.label)),
                          JsonMember(KeyText, JsonStr(o.text))>>, n)

\* a record, its keys in the order parse_docx sets them (lines 164, 174-175, 154)
DumpRecord(q, n) ==
    JsonBlock("{", "}",
        <<JsonMember(KeyOptions,
              JsonBlock("[", "]",
                  [k \in 1..Len(q.options) |-> DumpOption(q.options[k], n + 4)], n + 2)),
          JsonMember(KeyAnswer,
              JsonBlock("[", "]",
                  [k \in 1..Len(q.answer) |-> JsonStr(q.answer[k])], n + 2)),
          JsonMember(KeyType, JsonStr(q.type)),
          JsonMember(KeyQuestion, JsonStr(q.question)),
          JsonMember(KeyNumber, IntStr(q.number))>>, n)

\* json.dumps(q_list, ensure_ascii=False, indent=2)
json_dumps(q_list) ==
    JsonBlock("[", "]", [k \in 1..Len(q_list) |-> DumpRecord(q_list[k], 2)], 0)

\* lines 243-244: the text write_js writes
write_js(q_list) ==
    WindowData \o <<" ", "=", " ">> \o json_dumps(q_list) \o <<";", "NL">>

\* re.search(r"window\.questionsData\s*=\s*(\[[\s\S]*?\])\s*;", text): group 1 runs
\* from the "[" to the first "]" that whitespace and a ";" follow
SearchQuestionsData(text) ==
    LET n == Len(WindowData)
        Eq(p) == SkipWs(text, p + n)
        Open(p) == SkipWs(text, Eq(p) + 1)
        Closes(p) == {e \in (Open(p) + 1)..Len(text) :
                         /\ text[e] = "]"
                         /\ SkipWs(text, e + 1) <= Len(text)
                         /\ text[SkipWs(text, e + 1)] = ";"}
        Starts == {p \in 1..Len(text) :
                      /\ p + n - 1 <= Len(text)
                      /\ SubSeq(text, p, p + n - 1) = WindowData
                      /\ Eq(p) <= Len(text)
                      /\ text[Eq(p)] = "="
                      /\ Open(p) <= Len(text)
                      /\ text[Open(p)] = "["
                      /\ Closes(p) # {}}
    IN  IF Starts = {} THEN NoMatch
        ELSE [matched |-> TRUE,
              group |-> SubSeq(text, Open(MinOf(Starts)), MinOf(Closes(MinOf(Starts))))]

\* the lists a JSON text of the model can stand for
MaxOld == 2

\* {"options": [], "answer": [], "type": "单选", "question": "q", "number": 3}
RecPlain == [options |-> <<>>, answer |-> <<>>, type |-> DANXUAN,
             question |-> <<"q">>, number |-> 3]
\* a record whose question is "a[0]; b"
RecIndexed == [options |-> <<>>, answer |-> <<>>, type |-> DANXUAN,
               question |-> <<"a", "[", "0", "]", ";", " ", "b">>, number |-> 4]
\* a 判断 record with its options and an answer
RecJudge == [options |-> JudgeOptions, answer |-> <<<<"A">>>>, type |-> PANDUAN,
             question |-> <<"t">>, number |-> 9]

OldRecords == {RecPlain, RecIndexed, RecJudge}
OldLists == UNION {[1..k -> OldRecords] : k \in 0..MaxOld}

\* json.loads(payload): the list whose JSON text payload is; any other text
\* of the model is no JSON and raises
json_loads(payload) ==
    IF \E old \in OldLists : json_dumps(old) = payload
    THEN [raised |-> FALSE, value |-> CHOOSE old \in OldLists : json_dumps(old) = payload]
    ELSE [raised |-> TRUE, value |-> <<>>]

\* lines 227-230: the old list, empty when the payload does not load
OldList(payload) ==
    IF json_loads(payload).raised THEN <<>> ELSE json_loads(payload).value

\* lines 235-238: the records numbered n, n + 1, ...
Renumbered(q_list, n) ==
    [k \in 1..Len(q_list) |-> [q_list[k] EXCEPT !.number = n + k - 1]]

\* lines 217-239
merge_existing(file, list, renumber, start) ==
    IF ~file.exists THEN list
    ELSE LET m == SearchQuestionsData(file.text)
         IN  IF ~m.matched THEN list
             ELSE IF renumber THEN Renumbered(OldList(m.group) \o list, start)
             ELSE OldList(m.group) \o list

\* merge_existing called on its own
MergeExisting ==
    /\ pc = "merge"
    /\ merged' = merge_existing(js_file, new_list, renumber_after_merge, start_number)
    /\ pc' = "merged"
    /\ UNCHANGED <<js_file, new_list, renumber_after_merge>>
    /\ UNCHANGED <<parseVars, mainVars, normVars>>

----------------------------------------------------------------------------
(* main                                                                     *)

\* fault: main without the check of line 262
InputMissingIgnored == FALSE

\* line 262
InputMissing == ~in_exists

\* lines 262-267
MainCheckInput ==
    /\ pc = "main"
    /\ IF InputMissing
       THEN /\ exit_status' = 2
            /\ pc' = "exit"
            /\ calls' = calls
       ELSE /\ pc' = "read"
            /\ calls' = Append(calls, "parse_docx")
            /\ exit_status' = exit_status
    /\ UNCHANGED <<in_exists, append_to, out_file>>
    /\ UNCHANGED <<parseVars, mergeVars, normVars>>

\* lines 268-270
MainParseFailed ==
    /\ pc = "raised"
    /\ exit_status' = 3
    /\ pc' = "exit"
    /\ UNCHANGED <<in_exists, append_to, out_file, calls>>
    /\ UNCHANGED <<parseVars, mergeVars, normVars>>

\* lines 272-273
MainMerge ==
    /\ pc = "returned"
    /\ append_to
    /\ merged' = merge_existing(js_file, questions, renumber_after_merge, start_number)
    /\ new_list' = questions
    /\ calls' = Append(calls, "merge_existing")
    /\ pc' = "write"
    /\ UNCHANGED <<js_file, renumber_after_merge>>
    /\ UNCHANGED <<in_exists, append_to, out_file, exit_status>>
    /\ UNCHANGED <<parseVars, normVars>>

\* lines 274, 276, 278: the merged list or q_list written, main returns
MainWrite ==
    /\ pc = "write" \/ (pc = "returned" /\ ~append_to)
    /\ out_file' = FileWith(write_js(IF append_to THEN merged ELSE questions))
    /\ calls' = Append(calls, "write_js")
    /\ exit_status' = 0
    /\ pc' = "exit"
    /\ UNCHANGED <<in_exists, append_to>>
    /\ UNCHANGED <<parseVars, mergeVars, normVars>>

MainNext ==
    \/ MainCheckInput
    \/ MainParseFailed
    \/ MainMerge
    \/ MainWrite
    \/ ParseNext

----------------------------------------------------------------------------
(* Inputs                                                                   *)

MaxLines == 3

StartValues == {1, 5}

BoundedSeq(S, n) == UNION {[1..k -> S] : k \in 0..n}

\* "2、 Is sky blue (判断)"
LnSky == <<"2", "DUN", " ", "I", "s", " ", "s", "k", "y", " ", "b", "l", "u", "e", " ",
           "(", "pan", "duan", ")">>
\* "答案：正确"
LnAnsTrue == <<"da", "an", "FCOLON", "zheng", "que">>
\* "3."
LnBare == <<"3", ".">>
\* "　7) y"
LnSeven == <<"FSP", "7", ")", " ", "y">>
\* "A. foo"
LnOptA == <<"A", ".", " ", "f", "o", "o">>
\* "答案：、"
LnAnsSep == <<"da", "an", "FCOLON", "DUN">>
\* "答案: b,A"
LnAnsBA == <<"da", "an", ":", " ", "b", ",", "A">>
\* "z（判断）"
LnHint == <<"z", "FLP", "pan", "duan", "FRP">>
\* ""
LnBlank == <<>>

LineVocab == {LnSky, LnAnsTrue, LnBare, LnSeven, LnOptA, LnAnsSep, LnAnsBA, LnHint,
              LnBlank}

\* the state when parse_docx is entered with these paragraphs
ParseInit(vocab, n, starts, modes) ==
    /\ paragraphs \in BoundedSeq(vocab, n)
    /\ start_number \in starts
    /\ respect_word_number \in modes
    /\ lines = <<>>
    /\ idx = 0
    /\ cur = EmptyDict
    /\ questions = <<>>
    /\ auto_num = start_number
    /\ err = "none"
    /\ cur_from = 0
    /\ spans = <<>>

MergeIdle ==
    /\ js_file = AbsentFile
    /\ new_list = <<>>
    /\ renumber_after_merge = FALSE
    /\ merged = <<>>

MainIdle ==
    /\ in_exists = TRUE
    /\ append_to = FALSE
    /\ out_file = AbsentFile
    /\ calls = <<>>
    /\ exit_status = -1

NormIdle ==
    /\ arg_ans_text = <<>>
    /\ arg_q_type = DANXUAN
    /\ joined = <<>>
    /\ norm = [raised |-> "none", value |-> <<>>]

Init ==
    /\ ParseInit(LineVocab, MaxLines, StartValues, BOOLEAN)
    /\ pc = "read"
    /\ MergeIdle
    /\ MainIdle
    /\ NormIdle

Next == ParseNext

Spec == Init /\ [][Next]_vars

\* Inputs for the option lines: longer documents over fewer lines
MaxOptLines == 4

\* "1. q"
LnQ == <<"1", ".", " ", "q">>
\* "4.（判断）t"
LnJudge == <<"4", ".", "FLP", "pan", "duan", "FRP", "t">>
\* "B. x"
LnOptB == <<"B", ".", " ", "x">>
\* "b)  y  z"
LnOptb == <<"b", ")", " ", " ", "y", " ", " ", "z">>
\* "答案：B"
LnAnsB == <<"da", "an", "FCOLON", "B">>
\* "more"
LnMore == <<"m", "o", "r", "e">>

OptVocab == {LnQ, LnJudge, LnOptB, LnOptb, LnOptA, LnAnsB, LnMore}

InitOpts ==
    /\ ParseInit(OptVocab, MaxOptLines, {1}, {FALSE})
    /\ pc = "read"
    /\ MergeIdle
    /\ MainIdle
    /\ NormIdle

SpecOpts == InitOpts /\ [][Next]_vars

\* Inputs for the type hints
MaxTypeLines == 3

\* "1.(单选) x (判断)"
LnBoth == <<"1", ".", "(", "dan", "xuan", ")", " ", "x", " ", "(", "pan", "duan", ")">>
\* "2、 s (多选)"
LnTrail == <<"2", "DUN", " ", "s", " ", "(", "duo", "xuan", ")">>
\* "w (多选)"
LnHintMulti == <<"w", " ", "(", "duo", "xuan", ")">>
\* "（单选）"
LnOnlyHint == <<"FLP", "dan", "xuan", "FRP">>

TypeVocab == {LnBoth, LnTrail, LnJudge, LnBare, LnHint, LnHintMulti, LnOnlyHint, LnMore,
              LnOptA, LnAnsB}

InitType ==
    /\ ParseInit(TypeVocab, MaxTypeLines, {1}, {FALSE})
    /\ pc = "read"
    /\ MergeIdle
    /\ MainIdle
    /\ NormIdle

SpecType == InitType /\ [][Next]_vars

\* Inputs of merge_existing
MaxNew == 2

\* "garbage": not the wrapped-array shape
GarbageText == <<"g", "a", "r", "b", "a", "g", "e">>
\* "window.questionsData = [oops];": the shape, with a payload that is no JSON
BadPayloadText == WindowData \o <<" ", "=", " ", "[", "o", "o", "p", "s", "]", ";">>

MalformedFiles == {FileWith(GarbageText), FileWith(BadPayloadText)}
WellFormedFiles == {FileWith(write_js(old)) : old \in OldLists}

\* a record numbered 7 with options and answers, and one numbered 2
RecNewA == [options |-> <<[label |-> <<"A">>, text |-> <<"f", "o", "o">>]>>,
            answer |-> <<<<"A">>>>, type |-> DUOXUAN, question |-> <<"y">>, number |-> 7]
RecNewB == [options |-> <<>>, answer |-> <<>>, type |-> DANXUAN,
            question |-> <<"q">>, number |-> 2]

NewLists == UNION {[1..k -> {RecNewA, RecNewB}] : k \in 0..MaxNew}

InitMerge ==
    /\ js_file \in {AbsentFile} \cup MalformedFiles \cup WellFormedFiles
    /\ new_list \in NewLists
    /\ renumber_after_merge \in BOOLEAN
    /\ merged = <<>>
    /\ pc = "merge"
    /\ paragraphs = <<>>
    /\ start_number \in StartValues
    /\ respect_word_number = FALSE
    /\ lines = <<>>
    /\ idx = 0
    /\ cur = EmptyDict
    /\ questions = <<>>
    /\ auto_num = start_number
    /\ err = "none"
    /\ cur_from = 0
    /\ spans = <<>>
    /\ MainIdle
    /\ NormIdle

SpecMerge == InitMerge /\ [][MergeExisting]_vars

\* Inputs of normalize_answers: canonical label lists joined by separators
MaxLabels == 3

\* letters of the answers; T, F, Y and N are also words of TRUE_SET, FALSE_SET
LabelLetters == {<<"A">>, <<"B">>, <<"C">>, <<"F">>}

\* 、  ，  ", "  ;  ；  " "  +
SepStrings == {<<"DUN">>, <<"FCOMMA">>, <<",", " ">>, <<";">>, <<"FSEMI">>, <<" ">>, <<"+">>}

\* the lists of labels without a repeated label, of 1 to n labels
CanonicalLists(n) ==
    {L \in UNION {[1..k -> LabelLetters] : k \in 1..n} :
        \A a, b \in DOMAIN L : a # b => L[a] # L[b]}

\* the labels of L with seps[k] between the k-th and the next
RECURSIVE JoinLabels(_, _)
JoinLabels(L, seps) ==
    IF Len(L) = 1 THEN L[1]
    ELSE L[1] \o seps[1] \o JoinLabels(Tail(L), Tail(seps))

NormInputs ==
    {[labels |-> L, seps |-> sp, type |-> t] :
        L \in CanonicalLists(MaxLabels),
        sp \in [1..(MaxLabels - 1) -> SepStrings],
        t \in {DANXUAN, DUOXUAN, PANDUAN}}

InitNorm ==
    /\ \E i \in NormInputs :
          /\ i.type = PANDUAN => i.labels \in {<<<<"A">>>>, <<<<"B">>>>}
          /\ arg_ans_text = JoinLabels(i.labels, i.seps)
          /\ arg_q_type = i.type
          /\ joined = i.labels
    /\ norm = [raised |-> "none", value |-> <<>>]
    /\ pc = "normalize"
    /\ paragraphs = <<>>
    /\ start_number = 1
    /\ respect_word_number = FALSE
    /\ lines = <<>>
    /\ idx = 0
    /\ cur = EmptyDict
    /\ questions = <<>>
    /\ auto_num = 1
    /\ err = "none"
    /\ cur_from = 0
    /\ spans = <<>>
    /\ MergeIdle
    /\ MainIdle

\* normalize_answers called on its own
NormalizeAnswers ==
    /\ pc = "normalize"
    /\ norm' = normalize_answers(arg_ans_text, arg_q_type)
    /\ pc' = "normalized"
    /\ UNCHANGED <<arg_ans_text, arg_q_type, joined>>
    /\ UNCHANGED <<parseVars, mergeVars, mainVars>>

SpecNorm == InitNorm /\ [][NormalizeAnswers]_vars

\* Inputs of main
MaxMainLines == 2

MainVocab == {LnJudge, LnBare, LnOptA, LnAnsSep, LnAnsB, LnMore}

MainFiles == {AbsentFile, FileWith(GarbageText), FileWith(write_js(<<RecPlain>>))}

InitMain ==
    /\ ParseInit(MainVocab, MaxMainLines, {1}, BOOLEAN)
    /\ pc = "main"
    /\ in_exists \in BOOLEAN
    /\ ~in_exists => paragraphs = <<>> /\ ~respect_word_number
    /\ append_to \in BOOLEAN
    /\ renumber_after_merge \in BOOLEAN
    /\ js_file \in MainFiles
    /\ ~append_to => js_file = AbsentFile /\ ~renumber_after_merge
    /\ out_file \in {AbsentFile, js_file}
    /\ new_list = <<>>
    /\ merged = <<>>
    /\ calls = <<>>
    /\ exit_status = -1
    /\ NormIdle

SpecMain == InitMain /\ [][MainNext]_vars

----------------------------------------------------------------------------
(* What the claims speak of, read off the input lines                       *)

\* how the loop takes a line while a record is open (lines 160-208)
Kind(line) ==
    IF RE_Q_START(line).matched THEN "qstart"
    ELSE IF RE_OPT(line).matched THEN "option"
    ELSE IF RE_ANS(line).matched THEN "answer"
    ELSE IF line # <<>> THEN "text"
    ELSE "blank"

\* the lines consumed while the k-th emitted record was open
BodyOf(k) == {j \in (spans[k].from + 1)..spans[k].to : j <= Len(lines)}
OptionLinesOf(k) == {j \in BodyOf(k) : Kind(lines[j]) = "option"}
AnswerLinesOf(k) == {j \in BodyOf(k) : Kind(lines[j]) = "answer"}

\* the number of question-start lines among the first j lines
QStartCount(j) == Cardinality({i \in 1..j : Kind(lines[i]) = "qstart"})

\* the type of the record opened at line from once line j is consumed
RECURSIVE TypeUpTo(_, _)
TypeUpTo(from, j) ==
    IF j <= from THEN QuestionType(RE_Q_START(lines[from]))
    ELSE IF Kind(lines[j]) = "text" /\ extract_type_from_text(lines[j]).typ # None
    THEN extract_type_from_text(lines[j]).typ
    ELSE TypeUpTo(from, j - 1)

Emitted == 1..Len(questions)

\* a set of line indices in increasing order
RECURSIVE SortedSeq(_)
SortedSeq(S) == IF S = {} THEN <<>> ELSE <<MinOf(S)>> \o SortedSeq(S \ {MinOf(S)})

\* the label of option line j, case folded
OptLabel(j) == upper(RE_OPT(lines[j]).label)

\* the option lines of the k-th emitted record that are the first of their label
FirstOptionLinesOf(k) ==
    {j \in OptionLinesOf(k) : \A i \in OptionLinesOf(k) : i < j => OptLabel(i) # OptLabel(j)}

\* those lines as options, in the order of the lines
FirstOccurrences(k) ==
    LET js == SortedSeq(FirstOptionLinesOf(k))
    IN  [n \in 1..Len(js) |-> [label |-> OptLabel(js[n]),
                               text |-> clean(RE_OPT(lines[js[n]]).text)]]

\* the option labels of the k-th emitted record are distinct uppercase letters
LabelsDistinctUpper(k) ==
    LET opts == questions[k].options
    IN  /\ \A a \in DOMAIN opts : Len(opts[a].label) = 1 /\ IsUpper(opts[a].label[1])
        /\ \A a, b \in DOMAIN opts : a # b => opts[a].label # opts[b].label

----------------------------------------------------------------------------
(* Claims                                                                   *)

\* C1: every record of the list parse_docx builds has a non-empty question
\* text after whitespace cleaning; a record whose question is empty when it
\* is finalized is not appended.
C1_QuestionNonEmpty ==
    \A k \in Emitted : clean(questions[k].question) # <<>>

\* C1 witness: the pass ended, one record was appended and another, opened by
\* a question-start line, was dropped.
C1_Witness ==
    /\ pc = "returned"
    /\ Len(questions) >= 1
    /\ QStartCount(Len(lines)) > Len(questions)

\* C2: parsing never fails on a parse-level anomaly: normalize_answers
\* returns a list for every answer line, so parse_docx never raises out of it.
C2_NeverRaises == err # "IndexError"

\* C3: an emitted 判断 record for which no option line was consumed has the
\* options [{A, 正确}, {B, 错误}], in that order.
C3_JudgeDefaultOptions ==
    \A k \in Emitted :
        (questions[k].type = PANDUAN /\ OptionLinesOf(k) = {})
        => questions[k].options = <<[label |-> <<"A">>, text |-> <<"zheng", "que">>],
                                    [label |-> <<"B">>, text |-> <<"cuo", "wu">>]>>

\* C3 witness: an emitted record without option lines that became 判断 only
\* through the trailing hint of a continuation line.
C3_Witness ==
    \E k \in Emitted :
        /\ questions[k].type = PANDUAN
        /\ OptionLinesOf(k) = {}
        /\ QuestionType(RE_Q_START(lines[spans[k].from])) # PANDUAN

\* C4: the answer of an emitted record is the normalization of the last
\* answer line consumed while it was open, against the type the record had
\* when that line was consumed; earlier answer lines leave nothing.
C4_LastAnswerWins ==
    \A k \in Emitted :
        AnswerLinesOf(k) # {}
        => LET j == MaxOf(AnswerLinesOf(k))
           IN  questions[k].answer =
                   normalize_answers(RE_ANS(lines[j]).text,
                                     TypeUpTo(spans[k].from, j - 1)).value

\* C4 witness: two answer lines, the first with labels, the last normalizing
\* to the empty list, and the emitted answer is empty.
C4_Witness ==
    \E k \in Emitted :
        /\ Cardinality(AnswerLinesOf(k)) >= 2
        /\ questions[k].answer = <<>>
        /\ LET j == MinOf(AnswerLinesOf(k))
           IN  normalize_answers(RE_ANS(lines[j]).text,
                                 TypeUpTo(spans[k].from, j - 1)).value # <<>>

\* C5: with declared numbers not respected, the record of the k-th
\* question-start line has the number start_number + k - 1, emitted or still
\* open, and the numbers of the emitted records increase strictly.
C5_AutoNumbering ==
    ~respect_word_number =>
        /\ \A k \in Emitted :
              /\ questions[k].number = start_number + QStartCount(spans[k].from) - 1
              /\ k > 1 => questions[k - 1].number < questions[k].number
        /\ (pc = "loop" /\ ~IsEmptyDict(cur))
              => cur.number = start_number + QStartCount(cur_from) - 1

\* C5 witness: start value 5 and three questions, declared 2, 7, 2, emitted
\* as 5, 6, 7.
C5_Witness ==
    /\ ~respect_word_number
    /\ start_number = 5
    /\ Len(questions) = 3
    /\ [k \in 1..3 |-> questions[k].number] = <<5, 6, 7>>
    /\ [k \in 1..3 |-> RE_Q_START(lines[spans[k].from]).num] = <<2, 7, 2>>

\* the input of end-to-end scenario 2
Scenario2 == <<LnSky, LnAnsTrue>>

Scenario2Run ==
    /\ paragraphs = Scenario2
    /\ start_number = 1
    /\ ~respect_word_number
    /\ pc = "returned"

\* the record scenario 2 expects, but for its number
Scenario2Record(n) ==
    [number |-> n,
     type |-> <<"pan", "duan">>,
     question |-> <<"I", "s", " ", "s", "k", "y", " ", "b", "l", "u", "e">>,
     options |-> <<[label |-> <<"A">>, text |-> <<"zheng", "que">>],
                   [label |-> <<"B">>, text |-> <<"cuo", "wu">>]>>,
     answer |-> <<<<"A">>>>]

\* C9 as stated: with the default settings the scenario yields one record
\* with number 2.
C9_Original == Scenario2Run => questions = <<Scenario2Record(2)>>

\* C9 amended: with the default settings (start value 1, declared numbers not
\* respected) the scenario yields one record with number 1, type 判断,
\* question "Is sky blue", options [{A, 正确}, {B, 错误}], answer ["A"].
C9_Scenario2 == Scenario2Run => questions = <<Scenario2Record(1)>>

\* C9 witness: the scenario was parsed to its end with the default settings.
C9_Witness == Scenario2Run /\ Len(questions) = 1

\* C6 as stated: in every emitted record the option labels are pairwise
\* distinct uppercase letters and the options are the first occurrence of each
\* label among the option lines consumed while the record was open, in order.
C6_Original ==
    \A k \in Emitted :
        /\ LabelsDistinctUpper(k)
        /\ questions[k].options = FirstOccurrences(k)

\* C6 amended: as stated, except that a 判断 record for which no option line
\* was consumed has the two default options instead of none.
C6_FirstOccurrenceOptions ==
    \A k \in Emitted :
        /\ LabelsDistinctUpper(k)
        /\ questions[k].options =
               IF questions[k].type = PANDUAN /\ OptionLinesOf(k) = {}
               THEN <<[label |-> <<"A">>, text |-> <<"zheng", "que">>],
                      [label |-> <<"B">>, text |-> <<"cuo", "wu">>]>>
               ELSE FirstOccurrences(k)

\* C6 witness: option lines B, b, A were consumed and the emitted options are
\* the first B and A.
C6_Witness ==
    \E k \in Emitted :
        /\ [n \in 1..3 |-> IF Cardinality(OptionLinesOf(k)) = 3
                            THEN OptLabel(SortedSeq(OptionLinesOf(k))[n])
                            ELSE <<>>] = <<<<"B">>, <<"B">>, <<"A">>>>
        /\ questions[k].options = <<[label |-> <<"B">>, text |-> <<"x">>],
                                    [label |-> <<"A">>, text |-> <<"f", "o", "o">>]>>

\* the records of q_list numbered n, n + 1, ... in order
NumberedFrom(q_list, n) ==
    [k \in 1..Len(q_list) |->
        [options |-> q_list[k].options, answer |-> q_list[k].answer,
         type |-> q_list[k].type, question |-> q_list[k].question,
         number |-> n + k - 1]]

\* C7: merge_existing on a well-formed existing output holding O and a new
\* list N returns O followed by N; without renumbering every record keeps its
\* number, with renumbering from s the i-th record (0-based) has number s + i.
C7_MergeConcatenates ==
    pc = "merged" =>
        \A old \in OldLists :
            js_file = FileWith(write_js(old))
            => merged = IF renumber_after_merge
                        THEN NumberedFrom(old \o new_list, start_number)
                        ELSE old \o new_list

\* C8: a malformed existing output (not the wrapped-array shape, or the shape
\* with a payload that is no JSON) gives what merging into a well-formed
\* output holding the empty list gives; with renumbering from s that is N
\* numbered s, s + 1, ...
C8_MalformedAsEmpty ==
    (pc = "merged" /\ js_file \in MalformedFiles) =>
        /\ merged = merge_existing(FileWith(write_js(<<>>)), new_list,
                                   renumber_after_merge, start_number)
        /\ renumber_after_merge => merged = NumberedFrom(new_list, start_number)

\* C10: a missing input file ends the process with status 2 and an error
\* raised by parse_docx with status 3; in both cases neither merge_existing
\* nor write_js was called, and the output file changes only in a step that
\* ends the run with status 0.
C10_AllOrNothing ==
    /\ [](/\ (pc = "exit" /\ ~in_exists) => exit_status = 2
          /\ (pc = "exit" /\ err # "none") => exit_status = 3
          /\ exit_status \in {2, 3} =>
                \A n \in 1..Len(calls) : calls[n] \notin {"merge_existing", "write_js"})
    /\ [][out_file' # out_file => exit_status' = 0]_vars

\* C10 witness: parse_docx raised on an answer line, the process ended with
\* status 3, and the output file that existed before is as it was.
C10_Witness ==
    /\ exit_status = 3
    /\ err = "IndexError"
    /\ append_to
    /\ out_file = js_file
    /\ out_file.exists

\* C11: for the type 单选 or 多选 and a non-empty list of uppercase letters with
\* no letter twice, and for the type 判断 and the list [A] or [B],
\* normalize_answers of the labels joined by separators returns that list.
C11_CanonicalFixed ==
    pc = "normalized" => norm = [raised |-> "none", value |-> joined]

C11_Witness ==
    /\ pc = "normalized"
    /\ arg_q_type = DUOXUAN
    /\ arg_ans_text = <<"F", "+", "A", ",", " ", "C">>
    /\ norm.value = <<<<"F">>, <<"A">>, <<"C">>>>

\* C12: every emitted 判断 record has the answer [], [A] or [B], whatever answer
\* and continuation lines were consumed, a continuation line whose hint changes
\* the type after an answer line included.
C12_JudgeAnswerAB ==
    \A k \in Emitted :
        questions[k].type = PANDUAN
        => questions[k].answer \in {<<>>, <<<<"A">>>>, <<<<"B">>>>}

\* C13: every label in the answer of an emitted record is the label of one of
\* the options of that record.
C13_Original ==
    \A k \in Emitted :
        \A a \in DOMAIN questions[k].answer :
            \E o \in DOMAIN questions[k].options :
                questions[k].options[o].label = questions[k].answer[a]

\* C13, amended: every label in the answer of an emitted record is one
\* uppercase letter; it need not be the label of an option of the record.
C13_AnswerLabelsUpper ==
    \A k \in Emitted :
        \A a \in DOMAIN questions[k].answer :
            /\ Len(questions[k].answer[a]) = 1
            /\ IsUpper(questions[k].answer[a][1])

\* an answer of two labels emitted with an option list that has neither
C13_Witness ==
    \E k \in Emitted :
        /\ questions[k].answer = <<<<"B">>, <<"A">>>>
        /\ questions[k].options = <<>>
        /\ AnswerLinesOf(k) # {}

\* the lines that are not blank
NonBlank(ls) == SelectSeq(ls, LAMBDA l : strip(l) # <<>>)

\* what parse_docx has returned or raised
Outcome == [err |-> err, questions |-> IF pc = "returned" THEN questions ELSE <<>>]

\* the loop is at a blank line
AtBlankLine == InLoop /\ LoopLine = <<>>

\* C14: a blank line leaves the open record, the counter and the output as they
\* are, whatever the state; the list returned is the one returned for the lines
\* with the blank lines removed; the output grows only at a question-start
\* line or at the end of the input.
C14_BlankLineNoOp ==
    /\ [][AtBlankLine => (cur' = cur /\ auto_num' = auto_num /\ questions' = questions)]_vars
    /\ [][questions' # questions
           => (pc = "loop" /\ (RE_Q_START(LoopLine).matched \/ idx = Len(lines) + 2))]_vars
    /\ [](pc \in {"returned", "raised"} /\ err # "PackageNotFoundError"
           => Outcome = parse_lines(NonBlank(lines), start_number))

\* a blank line passed between a question and its answer, the record emitted
C14_Witness ==
    /\ pc = "returned"
    /\ Len(lines) = 3
    /\ lines[2] = <<>>
    /\ Kind(lines[3]) = "answer"
    /\ Len(questions) = 1
    /\ questions[1].answer = <<<<"A">>>>

\* the lines from the first question-start line on
RECURSIVE FromFirstQStart(_)
FromFirstQStart(ls) ==
    IF ls = <<>> \/ RE_Q_START(strip(Head(ls))).matched THEN ls
    ELSE FromFirstQStart(Tail(ls))

\* the loop is at a line that starts no question while no record is open
AtOrphanLine == InLoop /\ IsEmptyDict(cur) /\ ~RE_Q_START(LoopLine).matched

\* C15: while no record is open a line that starts no question (option, answer,
\* text or blank) opens no record and leaves the output empty and the counter
\* as it is, and the list returned is the one returned without those lines.
C15_OrphanLinesDropped ==
    /\ [][AtOrphanLine => (IsEmptyDict(cur') /\ questions' = <<>> /\ questions = <<>>
                            /\ auto_num' = auto_num)]_vars
    /\ [](pc \in {"returned", "raised"} /\ err # "PackageNotFoundError"
           => Outcome = parse_lines(FromFirstQStart(lines), start_number))

\* an option line and an answer line passed before the first question
C15_Witness ==
    /\ pc = "returned"
    /\ Len(lines) = 3
    /\ Kind(lines[1]) = "option"
    /\ Kind(lines[2]) = "answer"
    /\ Kind(lines[3]) = "qstart"
    /\ Len(questions) = 1
    /\ questions[1].options = <<>>
    /\ questions[1].answer = <<>>

\* the type a question-start line gives: the hint next to the number, else the
\* hint at the end of the text, else 单选
StartType(line) ==
    LET m == RE_Q_START(line)
        trail == RE_Q_TYPE_AT_END(strip(m.qtext))
    IN  IF m.typedesc # None THEN m.typedesc
        ELSE IF trail.matched THEN trail.typ
        ELSE DANXUAN

\* the text of a line without the hint at its end, if it has one
WithoutHint(text) ==
    IF RE_Q_TYPE_AT_END(text).matched THEN RE_Q_TYPE_AT_END(text).body ELSE text

\* a record was opened by the line just consumed
JustOpened == pc = "loop" /\ ~IsEmptyDict(cur) /\ idx = cur_from + 1

\* C16: a question-start line gives the record the type of the hint next to the
\* number if there is one, else of the hint at the end of the text if there is
\* one, else 单选; with both hints the one next to the number decides and the
\* one at the end is still removed from the question.
C16_StartLineType ==
    JustOpened
    => /\ cur.type = StartType(lines[cur_from])
       /\ cur.question = clean(WithoutHint(strip(RE_Q_START(lines[cur_from]).qtext)))

\* the line "1.(单选) x (判断)" opened a 单选 record with the question "x"
C16_Witness ==
    /\ JustOpened
    /\ lines[cur_from] = LnBoth
    /\ cur.type = DANXUAN
    /\ cur.question = <<"x">>

\* the continuation lines among the lines from + 1 .. to, and those with a hint
TextLinesIn(from, to) ==
    {j \in (from + 1)..to : j <= Len(lines) /\ Kind(lines[j]) = "text"}
HintLinesIn(from, to) ==
    {j \in TextLinesIn(from, to) : RE_Q_TYPE_AT_END(lines[j]).matched}

\* the hint of the last continuation line that has one, else the type the
\* question-start line gave
LastHintType(from, to) ==
    IF HintLinesIn(from, to) = {} THEN StartType(lines[from])
    ELSE RE_Q_TYPE_AT_END(lines[MaxOf(HintLinesIn(from, to))]).typ

\* each of the lines js, its hint removed, after one space
RECURSIVE SpaceJoined(_)
SpaceJoined(js) ==
    IF js = <<>> THEN <<>>
    ELSE <<" ">> \o WithoutHint(lines[Head(js)]) \o SpaceJoined(Tail(js))

\* the question of the start line with the continuation lines appended
JoinedQuestion(from, to) ==
    clean(WithoutHint(strip(RE_Q_START(lines[from]).qtext))
          \o SpaceJoined(SortedSeq(TextLinesIn(from, to))))

\* C17: the type of a record, open or emitted, is the hint of the last
\* continuation line that had one, else the type its question-start line gave,
\* so a continuation hint overrides a hint next to the number; its question is
\* the start line's text and each continuation line's text, hints removed,
\* joined by single spaces.
C17_LastContinuationHint ==
    /\ (pc = "loop" /\ ~IsEmptyDict(cur))
       => /\ cur.type = LastHintType(cur_from, idx - 1)
          /\ cur.question = JoinedQuestion(cur_from, idx - 1)
    /\ \A k \in Emitted :
          /\ questions[k].type = LastHintType(spans[k].from, spans[k].to)
          /\ questions[k].question = JoinedQuestion(spans[k].from, spans[k].to)

\* "1.(单选) x (判断)", "z（判断）", "w (多选)" emitted as 多选 with "x z w"
C17_Witness ==
    /\ pc = "returned"
    /\ lines = <<LnBoth, LnHint, LnHintMulti>>
    /\ Len(questions) = 1
    /\ questions[1].type = DUOXUAN
    /\ questions[1].question = <<"x", " ", "z", " ", "w">>

\* the integer a question-start line declares
DeclaredNumber(j) == RE_Q_START(lines[j]).num

\* C18: when the declared numbers are respected, the number of every record,
\* open or emitted, is the integer its own question-start line declares,
\* whatever the start value and the lines before, and from each question-start
\* line on the counter is that integer plus one.
C18_DeclaredNumbering ==
    respect_word_number
    => /\ \A k \in Emitted : questions[k].number = DeclaredNumber(spans[k].from)
       /\ (pc \in {"loop", "returned"} /\ ~IsEmptyDict(cur))
          => /\ cur.number = DeclaredNumber(cur_from)
             /\ auto_num = DeclaredNumber(cur_from) + 1

\* declared numbers 7, 2, 7 kept with the start value 5
C18_Witness ==
    /\ respect_word_number
    /\ start_number = 5
    /\ pc = "returned"
    /\ Len(questions) = 3
    /\ [k \in 1..3 |-> questions[k].number] = <<7, 2, 7>>
    /\ auto_num = 8

\* C19: during the pass the output only grows at its end and a record once
\* emitted stays as it is, so the output at any point is a prefix of the
\* output at every later point.
C19_AppendOnly ==
    [][/\ Len(questions') >= Len(questions)
       /\ \A k \in 1..Len(questions) : questions'[k] = questions[k]]_vars

\* two records emitted and a third one open
C19_Witness ==
    /\ pc = "loop"
    /\ Len(questions) = 2
    /\ ~IsEmptyDict(cur)
    /\ cur.question # <<>>

\* the question-start lines, and the last line before the next one after j
QStarts == {j \in 1..Len(lines) : Kind(lines[j]) = "qstart"}
BlockEnd(j) ==
    IF \E i \in QStarts : i > j THEN MinOf({i \in QStarts : i > j}) - 1 ELSE Len(lines)

\* the question-start lines whose record is finalized by now
Finalized ==
    IF pc = "returned" THEN QStarts ELSE {j \in QStarts : j < cur_from}

\* of those, the ones whose question, continuation lines included, is not empty
FinalizedNonEmpty == SortedSeq({j \in Finalized : JoinedQuestion(j, BlockEnd(j)) # <<>>})

\* C20: every question-start line opens one record, finalized once, at the next
\* question-start line or at the end: the output holds one record for each
\* finalized question-start line whose accumulated question is not empty, in
\* the order of the lines, and none for the others; when the pass has ended
\* every question-start line is finalized.
C20_OneRecordPerQuestion ==
    /\ Len(questions) = Len(FinalizedNonEmpty)
    /\ \A k \in Emitted :
          /\ spans[k].from = FinalizedNonEmpty[k]
          /\ questions[k].question
               = JoinedQuestion(FinalizedNonEmpty[k], BlockEnd(FinalizedNonEmpty[k]))
    /\ (pc = "loop" /\ QStartCount(MinOf({idx - 1, Len(lines)})) > 0)
       => /\ ~IsEmptyDict(cur)
          /\ cur_from = MaxOf({j \in QStarts : j < idx})

\* three question-start lines, the first and the last with no question text:
\* one record returned, for the second
C20_Witness ==
    /\ pc = "returned"
    /\ Cardinality(QStarts) = 3
    /\ Len(questions) = 1
    /\ spans[1].from = 2

====
